---- MODULE Spec2Model ----
(***************************************************************************)
(* Model of gallery_dl/extractor/imagechest.py: the Image Chest API client *)
(* (ImagechestAPI), the user listing paginator (ImagechestUserExtractor)   *)
(* and the gallery resolver (ImagechestGalleryExtractor).                  *)
(***************************************************************************)
EXTENDS Integers, Sequences, FiniteSets, TLC

VARIABLES
  \* ---- ImagechestAPI and the transport it drives
  api_headers,   \* ImagechestAPI.headers, NoApi while no client exists
  api_pc,        \* position of _call: "idle", "loop", "returned", "raised"
  api_url,       \* local `url` of the running _call
  api_ret,       \* outcome of the last _call (value returned or exception)
  api_log,       \* what the running (or last) _call did: call, request,
                 \* response, json, wait, debug
  api_calls,     \* number of _call invocations so far

  \* ---- ImagechestUserExtractor.items (a generator)
  u_user,        \* self.user
  u_pc,          \* "start", "request", "for", "done", "raised"
  u_params,      \* local `params`, NoParams before the generator has started
  u_data,        \* local `data` of the running loop body
  u_idx,         \* position of the for loop in `data`
  u_requests,    \* the listing requests sent, in order (their params)
  u_responses,   \* the listing responses received, in order
  u_yield,       \* the messages yielded, in order
  u_exc,         \* the exception that left the generator, "none" if none

  \* ---- ImagechestGalleryExtractor
  g_id,          \* self.gallery_id
  g_token,       \* config("access-token"), "" when not configured
  g_init,        \* whether _init has run
  g_metadata,    \* the function bound to self.metadata
  g_images,      \* the function bound to self.images
  g_url,         \* self.gallery_url
  g_stash,       \* self._image_list, Unset while the attribute does not exist
  g_pc,          \* "idle", or "metadata_api" while _metadata_api awaits api.post
  g_page,        \* the page argument of the running _metadata_api call
  g_last,        \* the running or last call: name, implementation, page, outcome
  g_prev,        \* the call completed before it: name, implementation, success
  g_used,        \* the implementations the calls so far have run
  g_ops          \* number of metadata/images calls so far

apiVars == <<api_headers, api_pc, api_url, api_ret, api_log, api_calls>>
userVars == <<u_user, u_pc, u_params, u_data, u_idx, u_requests, u_responses, u_yield, u_exc>>
galVars == <<g_id, g_token, g_init, g_metadata, g_images, g_url, g_stash, g_pc,
             g_page, g_last, g_prev, g_used, g_ops>>
vars == <<apiVars, userVars, galVars>>

(***************************************************************************)
(* Bounds of the model.                                                    *)
(***************************************************************************)
MaxCalls == 2        \* _call invocations per client
MaxRequests == 3     \* HTTP requests per _call
MaxPages == 3        \* listing pages requested by one items() run
MaxData == 2         \* elements of the data array of one listing page
MaxOps == 3          \* metadata/images calls on one resolver
MaxImages == 2       \* images of one post returned by the API

(***************************************************************************)
(* Python values.  A call either returns a value or raises an exception.   *)
(***************************************************************************)
Ok(v) == [ok |-> TRUE, v |-> v]
Raise(e) == [ok |-> FALSE, exc |-> e]
Nothing == [ok |-> FALSE, exc |-> "none"]
None == "None"
Unset == [set |-> FALSE]
NoApi == <<>>
NoUrl == <<>>
NoParams == <<>>
NoPage == <<>>
NoCall == [op |-> "none", impl |-> "none", page |-> NoPage, out |-> Nothing,
           parsed |-> FALSE]
NoPrev == [op |-> "none", impl |-> "none", ok |-> FALSE]

\* Decoded JSON documents carry their type; the members of an object are a
\* function from its keys.
JObject(m) == [type |-> "object", members |-> m]
JArray(s) == [type |-> "array", items |-> s]
JNull == [type |-> "null"]
EmptyMap == [k \in {} |-> None]

\* A response body is text: JSON text of a document, or something else.
JsonText(doc) == [text |-> "json", doc |-> doc]
HtmlText == [text |-> "html"]

\* response.json(): requests raises a ValueError subclass on undecodable text.
ResponseJson(body) ==
  IF body.text = "json" THEN Ok(body.doc) ELSE Raise("ValueError")

\* value[key] for a string key: KeyError on a mapping without the key,
\* TypeError on a list or on None.
GetItem(value, key) ==
  IF value.type = "object"
  THEN IF key \in DOMAIN value.members
       THEN Ok(value.members[key])
       ELSE Raise("KeyError")
  ELSE Raise("TypeError")

\* m with key k bound to v (dict item assignment), and m without key k (pop).
SetItem(m, k, v) == [x \in (DOMAIN m) \cup {k} |-> IF x = k THEN v ELSE m[x]]
DelItem(m, k) == [x \in (DOMAIN m) \ {k} |-> m[x]]

(***************************************************************************)
(* ImagechestAPI                                                           *)
(***************************************************************************)
Tokens == {"tokA", "tokB"}
Ids == {"abcdefghijk", "ABCDEFGH123"}

api_root == "https://api.imgchest.com"

\* ImagechestAPI.__init__
ApiHeaders(access_token) == [Authorization |-> <<"Bearer ", access_token>>]

\* The statuses the server answers with, by the class _call sorts them into.
Statuses == {200, 204, 299, 300, 302, 399, 400, 404, 428, 429, 430, 500}

WaitSeconds == 600

\* The branch of _call's if/elif chain a status selects.
StatusClassRetry3xx(status) ==
  IF status < 300 THEN "success"
  ELSE IF status < 400 \/ status = 429 THEN "ratelimit"
  ELSE "other"
StatusClassRetryAll(status) ==
  IF status < 300 THEN "success"
  ELSE IF status < 400 THEN "auth"
  ELSE "ratelimit"
StatusClass(status) ==
  IF status < 300 THEN "success"
  ELSE IF status < 400 THEN "auth"
  ELSE IF status = 429 THEN "ratelimit"
  ELSE "other"

\* Bodies of the generic API answers.
ApiData == JObject([id |-> "x1"])
ApiBodies ==
  { JsonText(JObject([data |-> ApiData])),
    JsonText(JObject([data |-> JNull])),
    JsonText(JObject([error |-> "e"])),
    JsonText(JArray(<<>>)),
    HtmlText }

\* The events of api_log.
EvCall(endpoint) == [ev |-> "call", endpoint |-> endpoint]
EvRequest(url, headers) ==
  [ev |-> "request", url |-> url, headers |-> headers,
   fatal |-> None, allow_redirects |-> FALSE]
EvResponse(status, body) == [ev |-> "response", status |-> status, body |-> body]
EvJson == [ev |-> "json"]
EvWait(seconds) == [ev |-> "wait", seconds |-> seconds]
EvDebug(text) == [ev |-> "debug", text |-> text]

CountEv(log, e) == Cardinality({i \in 1..Len(log) : log[i].ev = e})

\* Entry of _call: url = self.root + endpoint.
StartCall(endpoint) ==
  /\ api_pc \in {"idle", "returned", "raised"}
  /\ api_headers # NoApi
  /\ api_calls < MaxCalls
  /\ api_calls' = api_calls + 1
  /\ api_pc' = "loop"
  /\ api_url' = <<api_root, endpoint>>
  /\ api_ret' = Nothing
  /\ api_log' = <<EvCall(endpoint)>>
  /\ UNCHANGED api_headers

\* One pass of the while loop: the request and the response it gets.
Exchange(status, body) ==
  <<EvRequest(api_url, api_headers), EvResponse(status, body)>>

CanRequest ==
  /\ api_pc = "loop"
  /\ CountEv(api_log, "request") < MaxRequests

\* response.json()["data"]
JsonData(body) ==
  LET r == ResponseJson(body)
  IN IF r.ok THEN GetItem(r.v, "data") ELSE r

\* status_code < 300: return response.json()["data"]
CallSuccess(status, body) ==
  /\ CanRequest
  /\ StatusClass(status) = "success"
  /\ api_log' = api_log \o Exchange(status, body) \o <<EvJson>>
  /\ api_ret' = JsonData(body)
  /\ api_pc' = IF JsonData(body).ok THEN "returned" ELSE "raised"
  /\ UNCHANGED <<api_headers, api_url, api_calls>>

\* status_code < 400: raise AuthenticationError
CallAuth(status, body) ==
  /\ CanRequest
  /\ StatusClass(status) = "auth"
  /\ api_log' = api_log \o Exchange(status, body)
  /\ api_ret' = Raise("AuthenticationError")
  /\ api_pc' = "raised"
  /\ UNCHANGED <<api_headers, api_url, api_calls>>

\* status_code == 429: self.extractor.wait(seconds=600), then loop again
CallRateLimitNoWait(status, body) ==
  /\ CanRequest
  /\ StatusClass(status) = "ratelimit"
  /\ api_log' = api_log \o Exchange(status, body)
  /\ UNCHANGED <<api_headers, api_url, api_ret, api_pc, api_calls>>
\* A loop that gives up on the second 429.
CallRateLimitCapped(status, body) ==
  /\ CanRequest
  /\ StatusClass(status) = "ratelimit"
  /\ IF \E i \in 1..Len(api_log) : api_log[i].ev = "wait"
     THEN /\ api_log' = api_log \o Exchange(status, body)
          /\ api_ret' = Raise("StopExtraction")
          /\ api_pc' = "raised"
     ELSE /\ api_log' = api_log \o Exchange(status, body) \o <<EvWait(WaitSeconds)>>
          /\ UNCHANGED <<api_ret, api_pc>>
  /\ UNCHANGED <<api_headers, api_url, api_calls>>
CallRateLimit(status, body) ==
  /\ CanRequest
  /\ StatusClass(status) = "ratelimit"
  /\ api_log' = api_log \o Exchange(status, body) \o <<EvWait(WaitSeconds)>>
  /\ UNCHANGED <<api_headers, api_url, api_ret, api_pc, api_calls>>

\* else: log.debug(response.text); raise StopExtraction
CallOther(status, body) ==
  /\ CanRequest
  /\ StatusClass(status) = "other"
  /\ api_log' = api_log \o Exchange(status, body) \o <<EvDebug(body)>>
  /\ api_ret' = Raise("StopExtraction")
  /\ api_pc' = "raised"
  /\ UNCHANGED <<api_headers, api_url, api_calls>>

\* ImagechestAPI.file / post / user
file(file_id) == StartCall(<<"/v1/file/", file_id>>)
post(post_id) == StartCall(<<"/v1/post/", post_id>>)
user(username) == StartCall(<<"/v1/user/", username>>)

(***************************************************************************)
(* The API client on its own.                                              *)
(***************************************************************************)
UserIdle ==
  /\ u_user = "" /\ u_pc = "start" /\ u_params = NoParams
  /\ u_data = <<>> /\ u_idx = 1
  /\ u_requests = <<>> /\ u_responses = <<>> /\ u_yield = <<>> /\ u_exc = "none"

GalleryIdle ==
  /\ g_id = "" /\ g_token = "" /\ g_init = FALSE
  /\ g_metadata = "metadata" /\ g_images = "images" /\ g_url = NoUrl
  /\ g_stash = Unset /\ g_pc = "idle" /\ g_page = NoPage
  /\ g_last = NoCall /\ g_prev = NoPrev /\ g_used = {} /\ g_ops = 0

ApiIdle ==
  /\ api_headers = NoApi /\ api_pc = "idle" /\ api_url = NoUrl
  /\ api_ret = Nothing /\ api_log = <<>> /\ api_calls = 0

InitAPI ==
  /\ \E t \in Tokens : api_headers = ApiHeaders(t)
  /\ api_pc = "idle" /\ api_url = NoUrl /\ api_ret = Nothing
  /\ api_log = <<>> /\ api_calls = 0
  /\ UserIdle
  /\ GalleryIdle

ApiFile == (\E i \in Ids : file(i)) /\ UNCHANGED <<userVars, galVars>>
ApiPost == (\E i \in Ids : post(i)) /\ UNCHANGED <<userVars, galVars>>
ApiUser == (\E i \in Ids : user(i)) /\ UNCHANGED <<userVars, galVars>>
ApiSuccess ==
  /\ \E s \in Statuses, b \in ApiBodies : CallSuccess(s, b)
  /\ UNCHANGED <<userVars, galVars>>
ApiAuth ==
  /\ \E s \in Statuses, b \in ApiBodies : CallAuth(s, b)
  /\ UNCHANGED <<userVars, galVars>>
ApiRateLimit ==
  /\ \E s \in Statuses, b \in ApiBodies : CallRateLimit(s, b)
  /\ UNCHANGED <<userVars, galVars>>
ApiOther ==
  /\ \E s \in Statuses, b \in ApiBodies : CallOther(s, b)
  /\ UNCHANGED <<userVars, galVars>>

NextAPI ==
  \/ ApiFile
  \/ ApiPost
  \/ ApiUser
  \/ ApiSuccess
  \/ ApiAuth
  \/ ApiRateLimit
  \/ ApiOther

SpecAPI == InitAPI /\ [][NextAPI]_vars

(***************************************************************************)
(* Claims about ImagechestAPI._call, read off the log of the running call. *)
(***************************************************************************)
Idx(e) == {i \in 1..Len(api_log) : api_log[i].ev = e}
RespWith(P(_)) == {i \in Idx("response") : P(api_log[i].status)}
Is429(s) == s = 429
IsBelow300(s) == s < 300
IsRedirect(s) == s >= 300 /\ s <= 399
IsOtherError(s) == s >= 400 /\ s # 429
LastIdx(S) == CHOOSE i \in S : \A j \in S : j <= i
RECURSIVE SumWaits(_)
SumWaits(S) ==
  IF S = {} THEN 0
  ELSE LET i == CHOOSE x \in S : TRUE
       IN api_log[i].seconds + SumWaits(S \ {i})

\* C1: every 429 response is followed by exactly one wait of 600 seconds and
\* then, if the call goes on, by a request equal to the first one; only a
\* response below 300 is ever parsed; the call returns the data field of the
\* first response below 300, after k waits (600*k seconds) and k+1 requests
\* where k is the number of 429 responses.
C1_RateLimitRetry ==
  /\ \A i \in RespWith(Is429) :
       /\ i < Len(api_log) /\ api_log[i + 1] = EvWait(600)
       /\ i + 2 <= Len(api_log) =>
            /\ api_log[i + 2].ev = "request"
            /\ api_log[i + 2] = api_log[2]
  /\ \A i \in Idx("wait") : (i - 1) \in RespWith(Is429)
  /\ \A i \in Idx("json") : (i - 1) \in RespWith(IsBelow300)
  /\ \A i \in RespWith(IsBelow300) :
       /\ \A j \in Idx("request") : j < i
       /\ \A j \in Idx("response") : j < i => api_log[j].status = 429
  /\ api_pc = "returned" =>
       LET k == Cardinality(RespWith(Is429))
           last == LastIdx(Idx("response"))
       IN /\ api_log[last].status < 300
          /\ api_ret = Ok(api_log[last].body.doc.members.data)
          /\ Cardinality(Idx("wait")) = k
          /\ SumWaits(Idx("wait")) = 600 * k
          /\ Cardinality(Idx("request")) = k + 1

C1_Witness ==
  /\ api_pc = "returned"
  /\ Cardinality(RespWith(Is429)) = 2
  /\ Cardinality(Idx("request")) = 3

\* C2: a response with status 300..399 ends the call with
\* AuthenticationError: it is the last thing the call does (no request, no
\* wait, no parse after it), however many 429 responses came before.
C2_RedirectIsTerminal ==
  \A i \in RespWith(IsRedirect) :
    /\ i = Len(api_log)
    /\ api_pc = "raised"
    /\ api_ret = Raise("AuthenticationError")

C2_Witness ==
  /\ RespWith(IsRedirect) # {}
  /\ Cardinality(RespWith(Is429)) = 2
  /\ api_ret = Raise("AuthenticationError")

\* C3: a response with a status >= 400 other than 429 has its raw body
\* logged once at debug level and ends the call with StopExtraction: nothing
\* follows the debug line, and nothing else is ever logged at debug level.
C3_OtherStatusIsTerminal ==
  /\ \A i \in RespWith(IsOtherError) :
       /\ i + 1 = Len(api_log)
       /\ api_log[i + 1] = EvDebug(api_log[i].body)
       /\ api_pc = "raised"
       /\ api_ret = Raise("StopExtraction")
  /\ \A i \in Idx("debug") : (i - 1) \in RespWith(IsOtherError)
  /\ Cardinality(Idx("debug")) <= 1

C3_Witness ==
  /\ RespWith(IsOtherError) # {}
  /\ Cardinality(RespWith(Is429)) = 1
  /\ api_ret = Raise("StopExtraction")

(***************************************************************************)
(* ImagechestUserExtractor                                                 *)
(***************************************************************************)
root == "https://imgchest.com"

\* The user names a profile URL can carry, and text.unquote of each.
Users == {"bob", "a%20b"}
unquote(name) == IF name = "a%20b" THEN "a b" ELSE name

\* The galleries a listing page can hold; the last one lacks "link".
G1 == [id |-> "g1", link |-> "https://imgchest.com/p/aaaaaaaaaa1"]
G2 == [id |-> "g2", link |-> "https://imgchest.com/p/aaaaaaaaaa2"]
GNoLink == [id |-> "g3"]

RECURSIVE SeqsUpTo(_, _)
SeqsUpTo(S, n) ==
  IF n = 0 THEN {<<>>}
  ELSE LET shorter == SeqsUpTo(S, n - 1)
       IN shorter \cup {Append(q, x) : q \in shorter, x \in S}

\* Bodies of the listing answers: a data array of galleries, other JSON
\* documents, and text that is no JSON.
ListingBodies ==
  { JsonText(JObject([data |-> JArray(d)])) : d \in SeqsUpTo({G1, G2}, MaxData) }
  \cup { JsonText(JObject([data |-> JArray(<<GNoLink>>)])),
         JsonText(JObject([data |-> JNull])),
         JsonText(JObject([error |-> "e"])),
         JsonText(JArray(<<>>)),
         JsonText(JNull),
         HtmlText }

\* items(), up to the loop: url and params.
UserStart ==
  /\ u_pc = "start"
  /\ u_params' = [page |-> 1, sort |-> "new", tag |-> "", q |-> "",
                  username |-> unquote(u_user), nsfw |-> "true"]
  /\ u_pc' = "request"
  /\ UNCHANGED <<u_user, u_data, u_idx, u_requests, u_responses, u_yield, u_exc>>
  /\ UNCHANGED <<apiVars, galVars>>

\* The exceptions the try around the request catches.
Caught == {"TypeError", "KeyError"}

\* data = self.request(url, params=params).json()["data"] inside the try,
\* and the entry of `for gallery in data`.
UserRequest ==
  /\ u_pc = "request"
  /\ Len(u_requests) < MaxPages
  /\ \E body \in ListingBodies :
       LET r == JsonData(body)
       IN /\ u_requests' = Append(u_requests, [url |-> <<root, "/api/posts">>,
                                               params |-> u_params])
          /\ u_responses' = Append(u_responses, body)
          /\ IF ~r.ok
             THEN /\ u_pc' = IF r.exc \in Caught THEN "done" ELSE "raised"
                  /\ u_exc' = IF r.exc \in Caught THEN "none" ELSE r.exc
                  /\ UNCHANGED <<u_data, u_idx>>
             ELSE IF r.v.type # "array"
             THEN /\ u_pc' = "raised"
                  /\ u_exc' = "TypeError"
                  /\ UNCHANGED <<u_data, u_idx>>
             ELSE /\ u_pc' = "for"
                  /\ u_data' = r.v.items
                  /\ u_idx' = 1
                  /\ UNCHANGED u_exc
  /\ UNCHANGED <<u_user, u_params, u_yield>>
  /\ UNCHANGED <<apiVars, galVars>>

\* Message.Queue
Queue == "Queue"

\* A loop body that skips a gallery it has yielded before.
UserYieldOnce ==
  /\ u_pc = "for"
  /\ u_idx <= Len(u_data)
  /\ LET gallery == SetItem(u_data[u_idx], "_extractor", "ImagechestGalleryExtractor")
     IN IF "link" \in DOMAIN gallery
        THEN /\ u_yield' =
                  IF \E i \in 1..Len(u_yield) : u_yield[i] = <<Queue, gallery["link"], gallery>>
                  THEN u_yield
                  ELSE Append(u_yield, <<Queue, gallery["link"], gallery>>)
             /\ u_idx' = u_idx + 1
             /\ UNCHANGED <<u_pc, u_exc>>
        ELSE /\ u_pc' = "raised"
             /\ u_exc' = "KeyError"
             /\ UNCHANGED <<u_yield, u_idx>>
  /\ UNCHANGED <<u_user, u_params, u_data, u_requests, u_responses>>
  /\ UNCHANGED <<apiVars, galVars>>

\* The loop body: tag the gallery with the delegate and yield it.
UserYield ==
  /\ u_pc = "for"
  /\ u_idx <= Len(u_data)
  /\ LET gallery == SetItem(u_data[u_idx], "_extractor", "ImagechestGalleryExtractor")
     IN IF "link" \in DOMAIN gallery
        THEN /\ u_yield' = Append(u_yield, <<Queue, gallery["link"], gallery>>)
             /\ u_idx' = u_idx + 1
             /\ UNCHANGED <<u_pc, u_exc>>
        ELSE /\ u_pc' = "raised"
             /\ u_exc' = "KeyError"
             /\ UNCHANGED <<u_yield, u_idx>>
  /\ UNCHANGED <<u_user, u_params, u_data, u_requests, u_responses>>
  /\ UNCHANGED <<apiVars, galVars>>

\* params["page"] += 1 once the for loop is exhausted.
UserNextPageByCount ==
  /\ u_pc = "for"
  /\ u_idx > Len(u_data)
  /\ u_params' = [u_params EXCEPT !.page = @ + Len(u_data)]
  /\ u_pc' = "request"
  /\ UNCHANGED <<u_user, u_data, u_idx, u_requests, u_responses, u_yield, u_exc>>
  /\ UNCHANGED <<apiVars, galVars>>
\* A paginator that takes an empty page for the last one.
UserNextPageStopOnEmpty ==
  /\ u_pc = "for"
  /\ u_idx > Len(u_data)
  /\ IF Len(u_data) = 0
     THEN u_pc' = "done" /\ UNCHANGED u_params
     ELSE u_pc' = "request" /\ u_params' = [u_params EXCEPT !.page = @ + 1]
  /\ UNCHANGED <<u_user, u_data, u_idx, u_requests, u_responses, u_yield, u_exc>>
  /\ UNCHANGED <<apiVars, galVars>>
UserNextPage ==
  /\ u_pc = "for"
  /\ u_idx > Len(u_data)
  /\ u_params' = [u_params EXCEPT !.page = @ + 1]
  /\ u_pc' = "request"
  /\ UNCHANGED <<u_user, u_data, u_idx, u_requests, u_responses, u_yield, u_exc>>
  /\ UNCHANGED <<apiVars, galVars>>

InitUser ==
  /\ u_user \in Users
  /\ u_pc = "start" /\ u_params = NoParams /\ u_data = <<>> /\ u_idx = 1
  /\ u_requests = <<>> /\ u_responses = <<>> /\ u_yield = <<>> /\ u_exc = "none"
  /\ ApiIdle
  /\ GalleryIdle

NextUser ==
  \/ UserStart
  \/ UserRequest
  \/ UserYield
  \/ UserNextPage

SpecUser == InitUser /\ [][NextUser]_vars

\* C4: the first listing response that is no JSON, or whose decoded body
\* has no data field, ends the iteration silently: the generator is done,
\* no exception has left it, and that response answers the last request.
C4_SilentStop ==
  \A i \in 1..Len(u_responses) :
    ~JsonData(u_responses[i]).ok =>
      /\ u_pc = "done"
      /\ u_exc = "none"
      /\ i = Len(u_responses)
      /\ Len(u_requests) = i

\* C5: the n-th listing request carries page = n, and between requests the
\* page parameter is one more than the number of requests sent, whatever
\* the data arrays held.
C5_PageIsRequestNumber ==
  /\ \A i \in 1..Len(u_requests) : u_requests[i].params.page = i
  /\ u_pc = "request" => u_params.page = Len(u_requests) + 1
  /\ u_pc = "for" => u_params.page = Len(u_requests)

C5_Witness ==
  /\ Len(u_requests) = 3
  /\ JsonData(u_responses[1]).v.items = <<>>
  /\ Len(JsonData(u_responses[2]).v.items) = 2
  /\ u_requests[3].params.page = 3

(***************************************************************************)
(* ImagechestGalleryExtractor: page-scrape mode                            *)
(*                                                                         *)
(* A page body is a sequence of pieces of text.  A piece is literal text   *)
(* ([lit |-> ...]) or the JSON text of a document ([esc, doc]): esc is     *)
(* TRUE while its quotes are written as the entity &quot;, the form an     *)
(* attribute value holds them in.                                          *)
(***************************************************************************)
Lit(s) == [lit |-> s]
Filler == Lit("x")
NotFoundText == Lit("Not Found")
Marker == Lit("data-page=\"")
Quote == Lit("\"")
BrokenJson == Lit("{")
Escaped(doc) == [esc |-> TRUE, doc |-> doc]
Plain(doc) == [esc |-> FALSE, doc |-> doc]

\* The allow-list of metadata().
Attributes ==
  <<"id", "slug", "status", "title", "nsfw", "score", "comments", "upvotes",
    "downvotes", "favorites", "views", "created">>

\* props.post of a gallery page; `extra` is a key outside the allow-list.
File1 == [link |-> "https://cdn.imgchest.com/files/1.png"]
File2 == [link |-> "https://cdn.imgchest.com/files/2.png"]
FileNoLink == [id |-> "f3"]
FullPost(title) ==
  [id |-> "abcdefghijk", slug |-> "s", status |-> "public", title |-> title,
   nsfw |-> "false", score |-> 1, comments |-> 0, upvotes |-> 1, downvotes |-> 0,
   favorites |-> 0, views |-> 7, created |-> "2023-01-01T00:00:00.000000Z",
   extra |-> "zzz",
   tags |-> JArray(<<"a", "b", "c">>), files |-> JArray(<<File1, File2>>)]
Restrict(m, keys) == [k \in (DOMAIN m) \cap keys |-> m[k]]
PageDoc(p) == JObject([props |-> JObject([post |-> p])])

\* The documents a data-page attribute can hold.
PageDocs ==
  { PageDoc(JObject(FullPost("T"))),
    PageDoc(JObject(FullPost("Not Found"))),
    PageDoc(JObject(Restrict(FullPost("T"), {"id", "title", "views", "extra"}))),
    PageDoc(JObject([FullPost("T") EXCEPT !.tags = JNull, !.files = JNull])),
    PageDoc(JObject([FullPost("T") EXCEPT !.tags = JArray(<<>>)])),
    PageDoc(JObject([FullPost("T") EXCEPT !.files = JArray(<<File1, FileNoLink>>)])),
    PageDoc(JNull),
    JObject([props |-> JNull]),
    JObject([component |-> "Post"]),
    JArray(<<>>) }

\* What can stand between the marker and the closing quote.  The empty
\* document {} holds no quote, so it reads the same escaped or not.
AttrValues ==
  { <<Escaped(d)>> : d \in PageDocs }
  \cup { <<Plain(JObject(EmptyMap))>>, <<BrokenJson>>, <<Filler>>, <<>>,
         <<Plain(JObject(EmptyMap)), Filler>> }

\* The page bodies: with or without the attribute, with or without its
\* closing quote, with "Not Found" before or after it.
Around ==
  { <<<<>>, <<>>>>, <<<<Filler>>, <<>>>>, <<<<NotFoundText>>, <<>>>>,
    <<<<>>, <<Filler, NotFoundText>>>> }
Pages ==
  { w[1] \o mid \o w[2] :
      w \in Around,
      mid \in {<<>>} \cup { <<Marker>> \o a \o <<Quote>> : a \in AttrValues }
               \cup { <<Marker, Plain(JObject(EmptyMap))>>, <<Marker, BrokenJson>> } }

\* Whether a piece of text holds the literal "Not Found".
HoldsNotFound(piece) ==
  IF "lit" \in DOMAIN piece THEN piece = NotFoundText
  ELSE /\ piece.doc.type = "object"
       /\ "props" \in DOMAIN piece.doc.members
       /\ piece.doc.members.props.type = "object"
       /\ "post" \in DOMAIN piece.doc.members.props.members
       /\ piece.doc.members.props.members.post.type = "object"
       /\ "title" \in DOMAIN piece.doc.members.props.members.post.members
       /\ piece.doc.members.props.members.post.members.title = "Not Found"

\* "Not Found" in page
NotFoundIn(page) == \E i \in 1..Len(page) : HoldsNotFound(page[i])

\* The first position of `piece` in txt at or after `from`, 0 if there is none.
Index(txt, piece, from) ==
  LET hits == {i \in from..Len(txt) : txt[i] = piece}
  IN IF hits = {} THEN 0 ELSE CHOOSE i \in hits : \A j \in hits : i <= j

\* text.extr(txt, begin, end, default): the text between the first `begin`
\* and the next `end`, `default` when either is missing.
extr(txt, begin, end, default) ==
  LET b == Index(txt, begin, 1)
      e == IF b = 0 THEN 0 ELSE Index(txt, end, b + 1)
  IN IF b = 0 \/ e = 0 THEN default ELSE SubSeq(txt, b + 1, e - 1)

\* text.unescape: HTML entities replaced by the characters they name.
unescape(txt) ==
  [i \in 1..Len(txt) |->
     IF "esc" \in DOMAIN txt[i] THEN Plain(txt[i].doc) ELSE txt[i]]

\* json.loads: the document, when the text is the JSON text of exactly one.
json_loads(txt) ==
  IF Len(txt) = 1 /\ "esc" \in DOMAIN txt[1] /\ ~txt[1].esc
  THEN Ok(txt[1].doc)
  ELSE Raise("ValueError")

\* _retrieve_page_data(page)
DefaultTextEmpty == <<>>
DefaultText == <<Plain(JObject(EmptyMap))>>
\* An extractor that answers a decode error with the empty mapping.
_retrieve_page_dataRecovering(page) ==
  LET decoded == json_loads(unescape(extr(page, Marker, Quote, DefaultText)))
  IN IF decoded.ok THEN decoded ELSE Ok(JObject(EmptyMap))
_retrieve_page_data(page) ==
  json_loads(unescape(extr(page, Marker, Quote, DefaultText)))

\* page_data["props"]["post"][key]
PostItem(page_data, key) ==
  LET props == GetItem(page_data, "props")
      post_ == IF props.ok THEN GetItem(props.v, "post") ELSE props
  IN IF post_.ok THEN GetItem(post_.v, key) ELSE post_

\* A join that writes the elements last to first.
JoinReversed(value) ==
  IF value.type # "array" THEN Raise("TypeError")
  ELSE Ok([i \in 1..(IF Len(value.items) = 0 THEN 0 ELSE 2 * Len(value.items) - 1) |->
             IF i % 2 = 1 THEN value.items[Len(value.items) + 1 - ((i + 1) \div 2)]
             ELSE ","])
\* ",".join(value): the pieces of the joined string, TypeError on a value
\* that is no list.
Join(value) ==
  IF value.type # "array" THEN Raise("TypeError")
  ELSE Ok([i \in 1..(IF Len(value.items) = 0 THEN 0 ELSE 2 * Len(value.items) - 1) |->
             IF i % 2 = 1 THEN value.items[(i + 1) \div 2] ELSE ","])

\* A loop under one try/except: the first attribute that fails ends it.
RECURSIVE CopyAttributesStopAtFirst(_, _, _)
CopyAttributesStopAtFirst(metadata_, page_data, n) ==
  IF n > Len(Attributes) THEN metadata_
  ELSE LET item == PostItem(page_data, Attributes[n])
       IN IF item.ok
          THEN CopyAttributesStopAtFirst(
                 SetItem(metadata_, Attributes[n], item.v), page_data, n + 1)
          ELSE metadata_

\* The for loop of metadata(): each attribute under its own try/except.
RECURSIVE CopyAttributes(_, _, _)
CopyAttributes(metadata_, page_data, n) ==
  IF n > Len(Attributes) THEN metadata_
  ELSE LET item == PostItem(page_data, Attributes[n])
       IN CopyAttributes(
            IF item.ok THEN SetItem(metadata_, Attributes[n], item.v) ELSE metadata_,
            page_data, n + 1)

\* metadata["tags"] = ",".join(...) under its try/except.
CopyTags(metadata_, page_data) ==
  LET item == PostItem(page_data, "tags")
      joined == IF item.ok THEN Join(item.v) ELSE item
  IN IF joined.ok THEN SetItem(metadata_, "tags", joined.v) ELSE metadata_

\* metadata(page): its outcome, and whether the page data was parsed.
metadataParseFirst(gallery_id, page) ==
  LET page_data == _retrieve_page_data(page)
  IN IF ~page_data.ok THEN [out |-> page_data, parsed |-> TRUE]
     ELSE IF NotFoundIn(page)
     THEN [out |-> Raise("NotFoundError"), parsed |-> TRUE]
     ELSE [out |-> Ok(CopyTags(
                     CopyAttributes([gallery_id |-> gallery_id], page_data.v, 1),
                     page_data.v)),
           parsed |-> TRUE]
metadata(gallery_id, page) ==
  IF NotFoundIn(page)
  THEN [out |-> Raise("NotFoundError"), parsed |-> FALSE]
  ELSE LET page_data == _retrieve_page_data(page)
       IN IF ~page_data.ok THEN [out |-> page_data, parsed |-> TRUE]
          ELSE [out |-> Ok(CopyTags(
                          CopyAttributes([gallery_id |-> gallery_id], page_data.v, 1),
                          page_data.v)),
                parsed |-> TRUE]

\* images(page)
images(page) ==
  LET page_data == _retrieve_page_data(page)
      files == IF page_data.ok THEN PostItem(page_data.v, "files") ELSE page_data
  IN IF ~page_data.ok THEN [out |-> page_data, parsed |-> TRUE]
     ELSE IF /\ files.ok
             /\ files.v.type = "array"
             /\ \A i \in 1..Len(files.v.items) : "link" \in DOMAIN files.v.items[i]
     THEN [out |-> Ok([i \in 1..Len(files.v.items) |->
                         <<files.v.items[i].link, None>>]),
           parsed |-> TRUE]
     ELSE [out |-> Ok(<<>>), parsed |-> TRUE]

(***************************************************************************)
(* ImagechestGalleryExtractor: API mode                                    *)
(***************************************************************************)
CreatedGood == "2023-01-01T00:00:00.000000Z"
CreatedBad == "yesterday"

\* text.parse_datetime(value, "%Y-%m-%dT%H:%M:%S.%fZ"): the timestamp, or
\* the string itself when it is not in the format.
parse_datetime(date_string) ==
  IF date_string = CreatedGood THEN "datetime(2023, 1, 1, 0, 0, 0)" ELSE date_string

\* The images a post can carry.
ImgA == [id |-> "i1", link |-> "https://cdn.imgchest.com/files/a.png",
         created |-> CreatedGood]
ImgB == [id |-> "i2", link |-> "https://cdn.imgchest.com/files/b.png",
         created |-> CreatedBad]
ImgNoLink == [id |-> "i3", created |-> CreatedGood]
ImgNoCreated == [id |-> "i4", link |-> "https://cdn.imgchest.com/files/d.png"]
ImageLists ==
  SeqsUpTo({ImgA, ImgB}, MaxImages) \cup {<<ImgNoLink>>, <<ImgA, ImgNoCreated>>}

\* The posts the API can answer with: with or without created,
\* image_count, an upstream gallery_id and images.
UpstreamPost(imgs) ==
  [id |-> "abcdefghijk", title |-> "T", created |-> CreatedGood,
   image_count |-> Len(imgs), gallery_id |-> "upstream", images |-> imgs]
KeySets ==
  { {"id", "title", "created", "image_count", "gallery_id", "images"},
    {"id", "title", "created", "images"},
    {"id", "title", "created", "gallery_id", "images"},
    {"id", "title", "created", "image_count", "images"},
    {"id", "title", "image_count", "images"} }
ApiPosts ==
  { Restrict(UpstreamPost(imgs), keys) : imgs \in ImageLists, keys \in KeySets }
  \cup { Restrict(UpstreamPost(<<>>), {"id", "title", "created", "image_count"}) }
PostBodies ==
  { JsonText(JObject([data |-> JObject(p)])) : p \in ApiPosts }
  \cup { JsonText(JObject([data |-> JNull])), JsonText(JObject([error |-> "e"])),
         HtmlText }
ErrorBodies == {HtmlText}
GalStatuses == {200, 302, 429, 500}

\* post["gallery_id"] = self.gallery_id; post.pop("image_count", None)
ApiPostFieldsKeepCount(m, gallery_id) == SetItem(m, "gallery_id", gallery_id)
ApiPostFields(m, gallery_id) ==
  DelItem(SetItem(m, "gallery_id", gallery_id), "image_count")

\* A _metadata_api that drops the stash when it fails.
MetadataApiBodyClearsStash(data, gallery_id, stash) ==
  IF data.type # "object" THEN [out |-> Raise("TypeError"), stash |-> Unset]
  ELSE LET m == data.members
       IN IF \/ "created" \notin DOMAIN m
             \/ "images" \notin DOMAIN m
             \/ \E i \in 1..Len(m.images) : "created" \notin DOMAIN m.images[i]
          THEN [out |-> Raise("KeyError"), stash |-> Unset]
          ELSE LET imgs == [i \in 1..Len(m.images) |->
                             SetItem(m.images[i], "date",
                                     parse_datetime(m.images[i].created))]
                   dated == SetItem(m, "date", parse_datetime(m.created))
               IN [out |-> Ok(DelItem(ApiPostFields(dated, gallery_id), "images")),
                   stash |-> [set |-> TRUE, list |-> imgs]]

\* _metadata_api after api.post returned `data`: the outcome and the value
\* of self._image_list afterwards.
MetadataApiBody(data, gallery_id, stash) ==
  IF data.type # "object" THEN [out |-> Raise("TypeError"), stash |-> stash]
  ELSE LET m == data.members
       IN IF "created" \notin DOMAIN m THEN [out |-> Raise("KeyError"), stash |-> stash]
          ELSE IF "images" \notin DOMAIN m
          THEN [out |-> Raise("KeyError"), stash |-> stash]
          ELSE IF \E i \in 1..Len(m.images) : "created" \notin DOMAIN m.images[i]
          THEN [out |-> Raise("KeyError"), stash |-> stash]
          ELSE LET imgs == [i \in 1..Len(m.images) |->
                             SetItem(m.images[i], "date",
                                     parse_datetime(m.images[i].created))]
                   dated == SetItem(m, "date", parse_datetime(m.created))
               IN [out |-> Ok(DelItem(ApiPostFields(dated, gallery_id), "images")),
                   stash |-> [set |-> TRUE, list |-> imgs]]

\* _images_api(page)
_images_apiReversed(stash) ==
  IF ~stash.set THEN Raise("AttributeError")
  ELSE IF \E i \in 1..Len(stash.list) : "link" \notin DOMAIN stash.list[i]
  THEN Raise("KeyError")
  ELSE Ok([i \in 1..Len(stash.list) |->
             <<stash.list[Len(stash.list) + 1 - i].link,
               stash.list[Len(stash.list) + 1 - i]>>])
_images_api(stash) ==
  IF ~stash.set THEN Raise("AttributeError")
  ELSE IF \E i \in 1..Len(stash.list) : "link" \notin DOMAIN stash.list[i]
  THEN Raise("KeyError")
  ELSE Ok([i \in 1..Len(stash.list) |-> <<stash.list[i].link, stash.list[i]>>])

(***************************************************************************)
(* ImagechestGalleryExtractor: construction, _init and the calls           *)
(***************************************************************************)
ConfigTokens == {None, "", "tokA"}
Truthy(access_token) == access_token \notin {None, ""}

\* The functions _init binds to self.metadata and self.images.
BindingsMetadataOnly(access_token) ==
  IF Truthy(access_token)
  THEN [metadata |-> "_metadata_api", images |-> "images"]
  ELSE [metadata |-> "metadata", images |-> "images"]
Bindings(access_token) ==
  IF Truthy(access_token)
  THEN [metadata |-> "_metadata_api", images |-> "_images_api"]
  ELSE [metadata |-> "metadata", images |-> "images"]

\* __init__: gallery_id and the page url; metadata/images are the class's.
InitGallery ==
  /\ g_id \in Ids
  /\ g_token \in ConfigTokens
  /\ g_init = FALSE
  /\ g_metadata = "metadata" /\ g_images = "images"
  /\ g_url = <<root, "/p/", g_id>>
  /\ g_stash = Unset /\ g_pc = "idle" /\ g_page = NoPage
  /\ g_last = NoCall /\ g_prev = NoPrev /\ g_used = {} /\ g_ops = 0
  /\ ApiIdle
  /\ UserIdle

\* _init
GalleryInit ==
  /\ ~g_init
  /\ g_init' = TRUE
  /\ g_metadata' = Bindings(g_token).metadata
  /\ g_images' = Bindings(g_token).images
  /\ IF Truthy(g_token)
     THEN /\ api_headers' = ApiHeaders(g_token)
          /\ g_url' = NoUrl
     ELSE UNCHANGED <<api_headers, g_url>>
  /\ UNCHANGED <<api_pc, api_url, api_ret, api_log, api_calls>>
  /\ UNCHANGED <<g_id, g_token, g_stash, g_pc, g_page, g_last, g_prev, g_used, g_ops>>
  /\ UNCHANGED userVars

\* The page argument: a body in page-scrape mode; in API mode no page url
\* is left to fetch, and whatever is passed is not looked at.
NonePage == <<Lit("None")>>
ApiModePages ==
  { NonePage,
    <<NotFoundText, Marker, Escaped(PageDoc(JObject(FullPost("T")))), Quote>> }

CanCall ==
  /\ g_init
  /\ g_pc = "idle"
  /\ g_ops < MaxOps

Done(prev) == [op |-> prev.op, impl |-> prev.impl, ok |-> prev.out.ok]

Completed(op, impl, page, r) ==
  /\ g_last' = [op |-> op, impl |-> impl, page |-> page, out |-> r.out,
                parsed |-> r.parsed]
  /\ g_prev' = Done(g_last)
  /\ g_used' = g_used \cup {impl}
  /\ g_ops' = g_ops + 1

\* self.metadata(page) bound to metadata
MetadataScrape ==
  /\ CanCall
  /\ g_metadata = "metadata"
  /\ \E page \in Pages : Completed("metadata", "metadata", page, metadata(g_id, page))
  /\ UNCHANGED <<g_id, g_token, g_init, g_metadata, g_images, g_url, g_stash, g_pc,
                 g_page>>
  /\ UNCHANGED <<apiVars, userVars>>

\* self.images(page) bound to images
ImagesScrape ==
  /\ CanCall
  /\ g_images = "images"
  /\ \E page \in Pages : Completed("images", "images", page, images(page))
  /\ UNCHANGED <<g_id, g_token, g_init, g_metadata, g_images, g_url, g_stash, g_pc,
                 g_page>>
  /\ UNCHANGED <<apiVars, userVars>>

\* self.metadata(page) bound to _metadata_api: post = self.api.post(...)
MetadataApiStart ==
  /\ CanCall
  /\ g_metadata = "_metadata_api"
  /\ post(g_id)
  /\ \E page \in ApiModePages :
       /\ g_page' = page
       /\ g_last' = [op |-> "metadata", impl |-> "_metadata_api", page |-> page,
                     out |-> Nothing, parsed |-> FALSE]
  /\ g_prev' = Done(g_last)
  /\ g_pc' = "metadata_api"
  /\ UNCHANGED <<g_id, g_token, g_init, g_metadata, g_images, g_url, g_stash,
                 g_used, g_ops>>
  /\ UNCHANGED userVars

\* The passes of _call under _metadata_api.
GalSuccess ==
  /\ g_pc = "metadata_api"
  /\ \E s \in GalStatuses, b \in PostBodies : CallSuccess(s, b)
  /\ UNCHANGED <<userVars, galVars>>
GalAuth ==
  /\ g_pc = "metadata_api"
  /\ \E s \in GalStatuses, b \in ErrorBodies : CallAuth(s, b)
  /\ UNCHANGED <<userVars, galVars>>
GalRateLimit ==
  /\ g_pc = "metadata_api"
  /\ \E s \in GalStatuses, b \in ErrorBodies : CallRateLimit(s, b)
  /\ UNCHANGED <<userVars, galVars>>
GalOther ==
  /\ g_pc = "metadata_api"
  /\ \E s \in GalStatuses, b \in ErrorBodies : CallOther(s, b)
  /\ UNCHANGED <<userVars, galVars>>

\* A _metadata_api that looks for "Not Found" in the page it is handed.
MetadataApiFinishReadsPage ==
  /\ g_pc = "metadata_api"
  /\ api_pc \in {"returned", "raised"}
  /\ LET r == IF NotFoundIn(g_page)
              THEN [out |-> Raise("NotFoundError"), stash |-> g_stash]
              ELSE IF api_ret.ok THEN MetadataApiBody(api_ret.v, g_id, g_stash)
              ELSE [out |-> api_ret, stash |-> g_stash]
     IN /\ g_stash' = r.stash
        /\ g_last' = [g_last EXCEPT !.out = r.out]
  /\ g_used' = g_used \cup {"_metadata_api"}
  /\ g_ops' = g_ops + 1
  /\ g_pc' = "idle"
  /\ UNCHANGED <<g_id, g_token, g_init, g_metadata, g_images, g_url, g_page, g_prev>>
  /\ UNCHANGED <<apiVars, userVars>>

\* _metadata_api once api.post has returned or raised.
MetadataApiFinish ==
  /\ g_pc = "metadata_api"
  /\ api_pc \in {"returned", "raised"}
  /\ LET r == IF api_ret.ok THEN MetadataApiBody(api_ret.v, g_id, g_stash)
              ELSE [out |-> api_ret, stash |-> g_stash]
     IN /\ g_stash' = r.stash
        /\ g_last' = [g_last EXCEPT !.out = r.out]
  /\ g_used' = g_used \cup {"_metadata_api"}
  /\ g_ops' = g_ops + 1
  /\ g_pc' = "idle"
  /\ UNCHANGED <<g_id, g_token, g_init, g_metadata, g_images, g_url, g_page, g_prev>>
  /\ UNCHANGED <<apiVars, userVars>>

\* self.images(page) bound to _images_api
ImagesApi ==
  /\ CanCall
  /\ g_images = "_images_api"
  /\ \E page \in ApiModePages :
       Completed("images", "_images_api", page,
                 [out |-> _images_api(g_stash), parsed |-> FALSE])
  /\ UNCHANGED <<g_id, g_token, g_init, g_metadata, g_images, g_url, g_stash, g_pc,
                 g_page>>
  /\ UNCHANGED <<apiVars, userVars>>

NextGallery ==
  \/ GalleryInit
  \/ MetadataScrape
  \/ ImagesScrape
  \/ MetadataApiStart
  \/ GalSuccess
  \/ GalAuth
  \/ GalRateLimit
  \/ GalOther
  \/ MetadataApiFinish
  \/ ImagesApi

SpecGallery == InitGallery /\ [][NextGallery]_vars

(***************************************************************************)
(* Claims about the gallery resolver.                                      *)
(***************************************************************************)
LastCallIs(impl) == g_last.impl = impl /\ g_last.out # Nothing

\* C6: in page-scrape mode metadata(page) on a body holding "Not Found"
\* anywhere fails with NotFound and the page data is not parsed, whether the
\* data-page attribute holds a well-formed document, a malformed one or is
\* absent.
C6_NotFoundFirst ==
  (LastCallIs("metadata") /\ NotFoundIn(g_last.page)) =>
    /\ g_last.out = Raise("NotFoundError")
    /\ ~g_last.parsed

C6_Witness ==
  /\ LastCallIs("metadata")
  /\ g_last.page = <<Marker, BrokenJson, Quote, Filler, NotFoundText>>
  /\ g_last.out = Raise("NotFoundError")

\* The images of the post the API answered the last _call with.
UpstreamImages ==
  api_log[LastIdx(Idx("response"))].body.doc.members.data.members.images

\* C7: in API mode an images() call that follows a successful metadata call
\* returns the list that call stashed: as many entries as the post had
\* images, in the post's order, entry i being the pair of image i's link
\* and image i's metadata (the upstream fields, kept as they were).
C7_ImagesReturnStash ==
  (/\ LastCallIs("_images_api") /\ g_last.out.ok
   /\ g_prev.impl = "_metadata_api" /\ g_prev.ok) =>
    /\ Len(g_last.out.v) = Len(UpstreamImages)
    /\ Len(g_last.out.v) = Len(g_stash.list)
    /\ \A i \in 1..Len(UpstreamImages) :
         /\ g_last.out.v[i][1] = UpstreamImages[i].link
         /\ g_last.out.v[i][2] = g_stash.list[i]
         /\ Restrict(g_last.out.v[i][2], DOMAIN UpstreamImages[i]) = UpstreamImages[i]

C7_Witness ==
  /\ LastCallIs("_images_api") /\ g_last.out.ok
  /\ g_prev.impl = "_metadata_api" /\ g_prev.ok
  /\ UpstreamImages = <<ImgB, ImgA>>
  /\ g_last.out.v[1][1] = ImgB.link /\ g_last.out.v[2][1] = ImgA.link

\* C8: the mapping API-mode metadata returns holds gallery_id, equal to the
\* resolver's gallery id whatever the upstream post said, and does not hold
\* image_count.
C8_GalleryIdNoImageCount ==
  (LastCallIs("_metadata_api") /\ g_last.out.ok) =>
    /\ "gallery_id" \in DOMAIN g_last.out.v
    /\ g_last.out.v.gallery_id = g_id
    /\ "image_count" \notin DOMAIN g_last.out.v

UpstreamPostMembers ==
  api_log[LastIdx(Idx("response"))].body.doc.members.data.members

C8_Witness ==
  /\ LastCallIs("_metadata_api") /\ g_last.out.ok
  /\ "image_count" \in DOMAIN UpstreamPostMembers
  /\ "gallery_id" \in DOMAIN UpstreamPostMembers
  /\ UpstreamPostMembers.gallery_id # g_id
  /\ g_last.out.v.gallery_id = g_id

\* A parse failure of a page: the attribute is absent, its value is no
\* JSON, or the document has no props.post mapping.
ParseFailure(page) ==
  LET d == _retrieve_page_data(page)
      p == IF d.ok THEN GetItem(d.v, "props") ELSE d
      q == IF p.ok THEN GetItem(p.v, "post") ELSE p
  IN ~q.ok \/ q.v.type # "object"

Degraded(impl) == IF impl = "metadata" THEN Ok([gallery_id |-> g_id]) ELSE Ok(<<>>)

\* C9: in page-scrape mode a parse failure is never an error of
\* metadata(page) or images(page): metadata returns the mapping holding
\* gallery_id alone and images returns the empty sequence.
C9_DegradesSilently ==
  (/\ LastCallIs("metadata") \/ LastCallIs("images")
   /\ ~(g_last.impl = "metadata" /\ NotFoundIn(g_last.page))
   /\ ParseFailure(g_last.page)) =>
    g_last.out = Degraded(g_last.impl)

\* C10: once _init has run the functions bound to metadata and images are
\* those the access token selects and they never change; every call runs an
\* implementation of that one mode; without a token there is no API client
\* and no API request, with a token no page-scrape implementation runs.
ScrapeImpls == {"metadata", "images"}
ApiImpls == {"_metadata_api", "_images_api"}
ModeOf(access_token) == IF Truthy(access_token) THEN ApiImpls ELSE ScrapeImpls

C10_ModeFixed ==
  /\ [](g_init =>
         /\ {g_metadata, g_images} \subseteq ModeOf(g_token)
         /\ g_used \subseteq ModeOf(g_token)
         /\ ~Truthy(g_token) =>
              api_headers = NoApi /\ api_calls = 0 /\ api_log = <<>>)
  /\ [][g_init => (g_metadata' = g_metadata /\ g_images' = g_images)]_vars

C10_Witness ==
  /\ Truthy(g_token)
  /\ g_ops = 3
  /\ g_used = ApiImpls
  /\ Idx("request") # {}

\* props.post.tags of the document a page holds, as metadata() would read it.
UpstreamTags(page) ==
  LET d == _retrieve_page_data(page)
  IN IF d.ok THEN PostItem(d.v, "tags") ELSE d

\* out.tags is the string made of the elements of the list `items`, in
\* order, with "," between neighbours.
IsJoined(str, items) ==
  /\ Len(str) = IF Len(items) = 0 THEN 0 ELSE 2 * Len(items) - 1
  /\ \A i \in 1..Len(items) : str[2 * i - 1] = items[i]
  /\ \A i \in 1..(Len(items) - 1) : str[2 * i] = ","

TagsSerialized ==
  LET t == UpstreamTags(g_last.page)
  IN IF t.ok /\ t.v.type = "array"
     THEN /\ "tags" \in DOMAIN g_last.out.v
          /\ IsJoined(g_last.out.v.tags, t.v.items)
     ELSE "tags" \notin DOMAIN g_last.out.v

\* C11 as stated: a tags list is written as its elements joined with ",",
\* an absent tags field leaves the key out, and the tags value is never null
\* and never the empty string.
C11_TagsNeverEmpty ==
  (LastCallIs("metadata") /\ g_last.out.ok) =>
    /\ TagsSerialized
    /\ "tags" \in DOMAIN g_last.out.v => g_last.out.v.tags # <<>>

\* C11 as amended: a tags list is written as its elements joined with ","
\* in order, so a list without elements gives the empty string; an absent
\* (or null) tags field leaves the key out, and the value is never null.
C11_TagsJoined ==
  (LastCallIs("metadata") /\ g_last.out.ok) =>
    /\ TagsSerialized
    /\ UpstreamTags(g_last.page) = Ok(JArray(<<>>)) => g_last.out.v.tags = <<>>

C11_Witness ==
  /\ LastCallIs("metadata") /\ g_last.out.ok
  /\ UpstreamTags(g_last.page) = Ok(JArray(<<"a", "b", "c">>))
  /\ g_last.out.v.tags = <<"a", ",", "b", ",", "c">>

\* The body holds data-page="{}" as its first data-page attribute; the body
\* holds no data-page marker.
HoldsEmptyAttribute(page) ==
  \E i \in 1..(Len(page) - 2) :
    /\ page[i] = Marker
    /\ \A j \in 1..(i - 1) : page[j] # Marker
    /\ page[i + 1] = Plain(JObject(EmptyMap))
    /\ page[i + 2] = Quote
MarkerAbsent(page) == \A i \in 1..Len(page) : page[i] # Marker

\* C12: for either gallery id, page-scrape metadata on a body holding
\* data-page="{}" (and not the literal "Not Found", which C6 covers) is
\* exactly {gallery_id: id} and images on it is exactly []; the same on a
\* body without the data-page marker.
C12_EmptyDocument ==
  (/\ LastCallIs("metadata") \/ LastCallIs("images")
   /\ HoldsEmptyAttribute(g_last.page) \/ MarkerAbsent(g_last.page)) =>
    /\ (g_last.impl = "metadata" /\ ~NotFoundIn(g_last.page)) =>
         (g_last.out.ok /\ g_last.out.v = [gallery_id |-> g_id])
    /\ g_last.impl = "images" => g_last.out = Ok(<<>>)

C12_Witness ==
  /\ LastCallIs("metadata") /\ HoldsEmptyAttribute(g_last.page)
  /\ g_last.out = Ok([gallery_id |-> g_id])
  /\ g_prev.impl = "images" /\ g_prev.ok
  /\ g_id = "ABCDEFGH123"

(***************************************************************************)
(* Page-scrape mode over every choice of the allow-listed fields: one page *)
(* is handed to metadata(page) and then to images(page).                   *)
(***************************************************************************)
AttributeSet == { Attributes[i] : i \in 1..Len(Attributes) }

\* props.post with any subset of the allow-listed fields, always with the
\* key `extra`, with or without tags and files.
FieldPosts ==
  { Restrict(FullPost("T"), S \cup others) :
      S \in SUBSET AttributeSet, others \in {{"extra"}, {"extra", "tags", "files"}} }
FieldPages == { <<Marker, Escaped(PageDoc(JObject(p))), Quote>> : p \in FieldPosts }

\* The resolver after _init without an access token, and the page fetched.
InitFields ==
  /\ g_id \in Ids
  /\ g_token = None
  /\ g_init = TRUE
  /\ g_metadata = Bindings(g_token).metadata /\ g_images = Bindings(g_token).images
  /\ g_url = <<root, "/p/", g_id>>
  /\ g_stash = Unset /\ g_pc = "idle" /\ g_page \in FieldPages
  /\ g_last = NoCall /\ g_prev = NoPrev /\ g_used = {} /\ g_ops = 0
  /\ ApiIdle
  /\ UserIdle

\* data = self.metadata(page)
FieldsMetadata ==
  /\ g_init /\ g_pc = "idle" /\ g_ops = 0
  /\ g_metadata = "metadata"
  /\ Completed("metadata", "metadata", g_page, metadata(g_id, g_page))
  /\ UNCHANGED <<g_id, g_token, g_init, g_metadata, g_images, g_url, g_stash, g_pc,
                 g_page>>
  /\ UNCHANGED <<apiVars, userVars>>

\* imgs = self.images(page)
FieldsImages ==
  /\ g_init /\ g_pc = "idle" /\ g_ops = 1
  /\ g_images = "images"
  /\ Completed("images", "images", g_page, images(g_page))
  /\ UNCHANGED <<g_id, g_token, g_init, g_metadata, g_images, g_url, g_stash, g_pc,
                 g_page>>
  /\ UNCHANGED <<apiVars, userVars>>

NextFields ==
  \/ FieldsMetadata
  \/ FieldsImages

SpecFields == InitFields /\ [][NextFields]_vars

\* The members of props.post of the document a page holds.
UpstreamFields(page) == _retrieve_page_data(page).v.members.props.members.post.members

\* C13: for every subset S of the 12 allow-listed fields present in
\* props.post, page-scrape metadata holds exactly gallery_id and the fields of
\* S, each with its upstream value, and tags exactly when props.post.tags is a
\* list; a missing field blocks no other field, and no other key is copied.
C13_FieldsIndependent ==
  LastCallIs("metadata") =>
    LET fields == UpstreamFields(g_last.page)
        S == (DOMAIN fields) \cap AttributeSet
    IN /\ g_last.out.ok
       /\ (DOMAIN g_last.out.v) \ {"tags"} = {"gallery_id"} \cup S
       /\ g_last.out.v.gallery_id = g_id
       /\ \A k \in S : g_last.out.v[k] = fields[k]
       /\ "tags" \in DOMAIN g_last.out.v <=>
            ("tags" \in DOMAIN fields /\ fields.tags.type = "array")

C13_Witness ==
  /\ LastCallIs("metadata")
  /\ DOMAIN UpstreamFields(g_last.page) = {"slug", "views", "created", "extra"}
  /\ DOMAIN g_last.out.v = {"gallery_id", "slug", "views", "created"}
  /\ g_last.out.v.views = 7

(***************************************************************************)
(* Claims about the listing of a user's galleries.                         *)
(***************************************************************************)
\* The decoded body carries a data array; a listing is one whose elements
\* all carry a link.
DataArray(body) == JsonData(body).ok /\ JsonData(body).v.type = "array"
DataItems(body) == JsonData(body).v.items
Listing(body) ==
  /\ DataArray(body)
  /\ \A i \in 1..Len(DataItems(body)) : "link" \in DOMAIN DataItems(body)[i]

\* C14: the iteration ends on the shape of a response and never on a count: it
\* is done only after a response without a data array; a listing of any
\* length, the empty one included, leaves the generator running and is
\* followed by the request for the next page, and no number of pages stops it.
C14_ShapeOnlyTermination ==
  /\ u_pc = "done" =>
       /\ Len(u_responses) >= 1
       /\ ~DataArray(u_responses[Len(u_responses)])
  /\ \A i \in 1..Len(u_responses) :
       Listing(u_responses[i]) =>
         IF i = Len(u_responses)
         THEN u_pc \in {"for", "request"}
         ELSE u_requests[i + 1].params.page = i + 1
  /\ (u_pc = "for" /\ u_idx > Len(u_data)) => ENABLED UserNextPage
  /\ (u_pc = "request" /\ Len(u_requests) < MaxPages) => ENABLED UserRequest

C14_Witness ==
  /\ Len(u_responses) = 3 /\ Len(u_requests) = 3
  /\ DataArray(u_responses[1]) /\ DataItems(u_responses[1]) = <<>>
  /\ DataArray(u_responses[2]) /\ DataItems(u_responses[2]) = <<G1, G2>>
  /\ DataArray(u_responses[3]) /\ DataItems(u_responses[3]) = <<>>
  /\ u_pc = "request" /\ u_params.page = 4

(***************************************************************************)
(* Termination of ImagechestAPI._call.                                     *)
(***************************************************************************)
\* C15: _call never ends on a 429 and never stops retrying: while every
\* response so far is a 429 the call is still in its loop, having done one
\* request and one 600 second wait per response, and one more round is
\* possible; a call that has returned or raised did so on its first response
\* other than 429, which is its last response.
C15_EndsAtFirstNon429 ==
  /\ api_pc = "loop" =>
       /\ \A i \in Idx("response") : api_log[i].status = 429
       /\ api_ret = Nothing
       /\ Cardinality(Idx("request")) = Cardinality(Idx("response"))
       /\ Cardinality(Idx("wait")) = Cardinality(Idx("response"))
       /\ \A i \in Idx("wait") : api_log[i].seconds = 600
       /\ CountEv(api_log, "request") < MaxRequests => ENABLED ApiRateLimit
  /\ api_pc \in {"returned", "raised"} =>
       /\ Idx("response") # {}
       /\ api_log[LastIdx(Idx("response"))].status # 429
       /\ \A i \in Idx("response") :
            i # LastIdx(Idx("response")) => api_log[i].status = 429
       /\ \A i \in Idx("request") : i < LastIdx(Idx("response"))
       /\ api_ret # Nothing

C15_Witness ==
  /\ api_pc = "loop"
  /\ Cardinality(RespWith(Is429)) = 3
  /\ Cardinality(Idx("wait")) = 3

(***************************************************************************)
(* What the listing yields.                                                *)
(***************************************************************************)
\* The elements of the data arrays of the first n responses, in order.
RECURSIVE Galleries(_, _)
Galleries(responses, n) ==
  IF n = 0 THEN <<>>
  ELSE Galleries(responses, n - 1)
         \o (IF DataArray(responses[n]) THEN DataItems(responses[n]) ELSE <<>>)

\* The queue reference of a gallery: its link, and the gallery tagged with
\* the resolver it is delegated to.
Reference(gallery) ==
  <<Queue, gallery.link,
    [k \in (DOMAIN gallery) \cup {"_extractor"} |->
       IF k = "_extractor" THEN "ImagechestGalleryExtractor" ELSE gallery[k]]>>
References(galleries) == [i \in 1..Len(galleries) |-> Reference(galleries[i])]

YieldedInOrder ==
  LET n == Len(u_responses)
  IN /\ u_pc = "start" => u_yield = <<>>
     /\ u_pc = "request" => u_yield = References(Galleries(u_responses, n))
     /\ u_pc = "done" => u_yield = References(Galleries(u_responses, n - 1))
     /\ u_pc = "for" =>
          /\ u_data = DataItems(u_responses[n])
          /\ u_yield = References(Galleries(u_responses, n - 1)
                                     \o SubSeq(u_data, 1, u_idx - 1))
     /\ u_pc = "raised" =>
          LET before == References(Galleries(u_responses, n - 1))
          IN /\ Len(before) <= Len(u_yield)
             /\ SubSeq(u_yield, 1, Len(before)) = before

\* C16: the references yielded are the elements of the data arrays of the
\* responses before the terminating one, in page order and in the order of
\* each array, duplicates included, each carrying its link and the gallery
\* tagged with the gallery resolver; when a request is sent every element of
\* the pages before it has been yielded.
C16_YieldsConcatenation ==
  /\ []YieldedInOrder
  /\ [][Len(u_requests') > Len(u_requests) =>
          /\ u_yield = References(Galleries(u_responses, Len(u_responses)))
          /\ u_yield' = u_yield]_vars

C16_Witness ==
  /\ u_pc = "done"
  /\ Len(u_responses) = 3
  /\ u_yield = <<Reference(G1), Reference(G2), Reference(G1)>>
  /\ DataItems(u_responses[2]) = <<G1>>

(***************************************************************************)
(* The page-data extractor and its callers.                                *)
(***************************************************************************)
\* Attribute values that are no JSON text, and the bodies whose first
\* data-page attribute holds one.
MalformedValues ==
  { <<BrokenJson>>, <<Filler>>, <<>>, <<Plain(JObject(EmptyMap)), Filler>> }
HoldsMalformedAttribute(page) ==
  \E i \in 1..Len(page), j \in 1..Len(page) :
    /\ i < j
    /\ page[i] = Marker /\ \A k \in 1..(i - 1) : page[k] # Marker
    /\ page[j] = Quote /\ \A k \in (i + 1)..(j - 1) : page[k] # Quote
    /\ SubSeq(page, i + 1, j - 1) \in MalformedValues

\* C17: on a body without the data-page marker metadata and images work on
\* the empty mapping (gallery_id alone, no images); on a body whose
\* data-page attribute is malformed JSON the decode error leaves metadata and
\* images as their error.
C17_DecodeErrorPropagates ==
  (/\ LastCallIs("metadata") \/ LastCallIs("images")
   /\ ~(g_last.impl = "metadata" /\ NotFoundIn(g_last.page))) =>
    /\ MarkerAbsent(g_last.page) => g_last.out = Degraded(g_last.impl)
    /\ HoldsMalformedAttribute(g_last.page) =>
         (g_last.out = Raise("ValueError") /\ g_last.parsed)

C17_Witness ==
  /\ LastCallIs("images")
  /\ HoldsMalformedAttribute(g_last.page)
  /\ g_last.out = Raise("ValueError")
  /\ g_prev.impl = "metadata" /\ ~g_prev.ok

(***************************************************************************)
(* API mode: the page argument and the stash.                              *)
(***************************************************************************)
\* The post of the last response is one _metadata_api goes through with.
UpstreamComplete ==
  /\ api_ret.v.type = "object"
  /\ {"created", "images"} \subseteq DOMAIN UpstreamPostMembers
  /\ \A i \in 1..Len(UpstreamImages) : "created" \in DOMAIN UpstreamImages[i]

StashedImages ==
  [i \in 1..Len(UpstreamImages) |->
     [k \in (DOMAIN UpstreamImages[i]) \cup {"date"} |->
        IF k = "date" THEN parse_datetime(UpstreamImages[i].created)
        ELSE UpstreamImages[i][k]]]

\* C19: the stash changes only when a _metadata_api call completes with a
\* result, and then holds that call's images; a call that fails leaves it as
\* it was; images() returns the entries of the stash as it stands, and fails
\* with an error while no metadata call has gone through.
C19_StashOnlyOnSuccess ==
  /\ [][g_stash' # g_stash =>
          /\ g_pc = "metadata_api" /\ g_pc' = "idle"
          /\ g_last'.out.ok]_vars
  /\ [][(g_pc = "metadata_api" /\ g_pc' = "idle") =>
          IF g_last'.out.ok
          THEN g_stash' = [set |-> TRUE, list |-> StashedImages]
          ELSE g_stash' = g_stash]_vars
  /\ [](LastCallIs("_images_api") =>
          IF g_stash.set
          THEN g_last.out.ok =>
                 \A i \in 1..Len(g_last.out.v) : g_last.out.v[i][2] = g_stash.list[i]
          ELSE g_last.out = Raise("AttributeError") /\ g_last.out # Ok(<<>>))
  /\ []((g_used \cap ApiImpls = {}) => g_stash = Unset)

C19_Witness ==
  /\ LastCallIs("_images_api") /\ g_last.out.ok /\ Len(g_last.out.v) = 2
  /\ g_prev.impl = "_metadata_api" /\ ~g_prev.ok
  /\ g_stash.set

====
